---- MODULE Spec2Model ----
(***************************************************************************)
(* A model of the voice-driven coding assistant: the file/folder tools and *)
(* the preview server of app/graph.py acting on a POSIX file system, the   *)
(* rewrite -> plan -> chatbot -> tools graph, and the listen / transcribe  *)
(* / respond / speak loop of app/main.py.                                  *)
(*                                                                         *)
(* Python strings are sequences of one-character strings, so that strip,   *)
(* basename, join and slicing are computed character by character.         *)
(* Intermediate values are passed as operator arguments rather than bound  *)
(* by LET, so that each is evaluated once.                                 *)
(***************************************************************************)
EXTENDS Integers, Sequences, FiniteSets, TLC

\* ------------------------------------------------------------------ bounds

\* Longest folder_name / filename argument explored by the tool calls.
MaxLen == 2
\* Most run_project calls (server threads) in one process.
MaxRuns == 2
\* Most direct tool calls explored from one initial file system.
MaxOps == 2
\* Most iterations of the voice loop.
MaxTurns == 2
\* Most chatbot steps of one graph run that answer with a tool call.
MaxToolRounds == 1
\* Length of the long assistant answer (longer than the spoken slice).
LongLen == 401

\* ------------------------------------------------------- strings and paths

\* The characters tool arguments are built from: a letter, the dot of "."
\* and "..", the POSIX separator and a blank.
Chars == {"a", ".", "/", " "}

Strs(n) == UNION {[1..k -> Chars] : k \in 0..n}

\* graph.py:18
CHAT_GPT_DIR == <<"c", "h", "a", "t", "_", "g", "p", "t">>

\* An Optional[str] argument: None, or a string.
None == [some |-> FALSE, v |-> <<>>]
Some(s) == [some |-> TRUE, v |-> s]

\* bool(x) of an Optional[str]: None and "" are falsy.
Truthy(o) == o.some /\ o.v # <<>>

RECURSIVE lstrip(_)
lstrip(s) == IF s # <<>> /\ Head(s) = " " THEN lstrip(Tail(s)) ELSE s

RECURSIVE rstrip(_)
rstrip(s) ==
  IF s # <<>> /\ s[Len(s)] = " " THEN rstrip(SubSeq(s, 1, Len(s) - 1)) ELSE s

\* str.strip()
strip(s) == rstrip(lstrip(s))

\* The index of the last "/" of s, 0 when there is none.
LastSep(s) ==
  IF \A i \in 1..Len(s) : s[i] # "/" THEN 0
  ELSE CHOOSE i \in 1..Len(s) :
         s[i] = "/" /\ \A j \in 1..Len(s) : s[j] = "/" => j <= i

\* The index of the first "/" of s, Len(s) + 1 when there is none.
FirstSep(s) ==
  IF \A i \in 1..Len(s) : s[i] # "/" THEN Len(s) + 1
  ELSE CHOOSE i \in 1..Len(s) :
         s[i] = "/" /\ \A j \in 1..Len(s) : s[j] = "/" => i <= j

\* posixpath.basename: what follows the last separator.
basename(s) == SubSeq(s, LastSep(s) + 1, Len(s))

\* posixpath.join of two parts.
join(a, b) ==
  IF b # <<>> /\ b[1] = "/" THEN b
  ELSE IF a = <<>> \/ a[Len(a)] = "/" THEN a \o b
  ELSE a \o <<"/">> \o b

RECURSIVE rstripSep(_)
rstripSep(s) ==
  IF s # <<>> /\ s[Len(s)] = "/" THEN rstripSep(SubSeq(s, 1, Len(s) - 1)) ELSE s

\* The head of posixpath.split: without its trailing separators, unless it
\* is only separators.
SplitHead(h, stripped) == IF stripped = <<>> THEN h ELSE stripped

SplitAt(s, i) ==
  [head |-> SplitHead(SubSeq(s, 1, i), rstripSep(SubSeq(s, 1, i))),
   tail |-> SubSeq(s, i + 1, Len(s))]

\* posixpath.split: (head, tail) around the last separator.
split(s) == SplitAt(s, LastSep(s))

ComponentsFrom(first, rest) == IF first = <<>> THEN rest ELSE <<first>> \o rest

\* The components of a relative path string, empty ones dropped.
RECURSIVE Components(_)
Components(s) ==
  IF s = <<>> THEN <<>>
  ELSE ComponentsFrom(SubSeq(s, 1, FirstSep(s) - 1),
                      Components(SubSeq(s, FirstSep(s) + 1, Len(s))))

TrailingSep(s) == s # <<>> /\ s[Len(s)] = "/"

Dot == <<".">>
DotDot == <<".", ".">>

LastIsName(cs) == cs # <<>> /\ cs[Len(cs)] \notin {Dot, DotDot}

\* The last component of a path string names an entry (not "." or "..").
NamesEntry(s) == LastIsName(Components(s))

\* ------------------------------------------------------------ file system
\* A file system is [dirs: set of paths, files: path -> content]; a path is
\* the sequence of names from the root. The process starts in Home, which
\* holds the application's own package next to (maybe) chat_gpt/.

Home == <<<<"w">>>>
AppDir == Home \o <<<<"a", "p", "p">>>>
AppFile == AppDir \o <<<<"m">>>>
ChatGptRoot == Home \o <<CHAT_GPT_DIR>>

ParentOf(p) == IF p = <<>> THEN <<>> ELSE SubSeq(p, 1, Len(p) - 1)

IsPrefix(p, q) == Len(p) <= Len(q) /\ SubSeq(q, 1, Len(p)) = p

StrictlyInside(p, d) == IsPrefix(d, p) /\ p # d

Kind(fs, p) ==
  IF p \in fs.dirs THEN "dir"
  ELSE IF p \in DOMAIN fs.files THEN "file"
  ELSE "none"

\* One step of path resolution from directory cur along component c.
StepTo(cur, c) ==
  IF c = Dot THEN cur
  ELSE IF c = DotDot THEN ParentOf(cur)
  ELSE cur \o <<c>>

\* Path resolution from directory cur: "dir" or "file" with the path found,
\* "absent" when only the last name is missing, "error" when a component on
\* the way is missing or no directory (ENOENT, ENOTDIR).
RECURSIVE Walk(_, _, _, _)
WalkOn(fs, nxt, comps, i) ==
  IF Kind(fs, nxt) = "none"
  THEN [st |-> IF i = Len(comps) THEN "absent" ELSE "error", path |-> nxt]
  ELSE Walk(fs, nxt, comps, i + 1)

Walk(fs, cur, comps, i) ==
  IF i > Len(comps) THEN [st |-> Kind(fs, cur), path |-> cur]
  ELSE IF Kind(fs, cur) # "dir" THEN [st |-> "error", path |-> cur]
  ELSE WalkOn(fs, StepTo(cur, comps[i]), comps, i)

\* A trailing separator demands a directory.
Checked(s, l) ==
  IF TrailingSep(s) /\ l.st = "file" THEN [st |-> "error", path |-> l.path] ELSE l

Lookup(fs, cwd, s) == Checked(s, Walk(fs, cwd, Components(s), 1))

\* os.path.exists / os.path.isdir: False on any error.
exists(fs, cwd, s) == Lookup(fs, cwd, s).st \in {"dir", "file"}
isdir(fs, cwd, s) == Lookup(fs, cwd, s).st = "dir"

MkdirAt(fs, l) ==
  IF l.st = "absent"
  THEN [fs |-> [fs EXCEPT !.dirs = @ \cup {l.path}], exc |-> "none"]
  ELSE [fs |-> fs,
        exc |-> IF l.st \in {"dir", "file"} THEN "FileExistsError" ELSE "OSError"]

\* os.mkdir: creates the directory, or fails with FileExistsError (the path
\* resolves) or another OSError.
mkdir(fs, cwd, s) == MkdirAt(fs, Lookup(fs, cwd, s))

\* The (head, tail) os.makedirs works with: of the head when the path ends
\* in a separator.
MakedirsSplit(s1) == IF s1.tail = <<>> THEN split(s1.head) ELSE s1

\* The leaf of os.makedirs(exist_ok=True): an OSError of its mkdir is
\* swallowed only when the leaf is a directory.
MakedirsLeaf(m, leafIsDir) ==
  IF m.exc = "none" \/ leafIsDir THEN [fs |-> m.fs, exc |-> "none"] ELSE m

\* os.makedirs(s, exist_ok=True): the missing parents first (a
\* FileExistsError of theirs is passed over), then the leaf.
RECURSIVE makedirs(_, _, _)
MakedirsParents(fs, cwd, sp) ==
  IF sp.head # <<>> /\ sp.tail # <<>> /\ ~exists(fs, cwd, sp.head)
  THEN makedirs(fs, cwd, sp.head)
  ELSE [fs |-> fs, exc |-> "none"]

MakedirsAfter(r1, cwd, s) ==
  IF r1.exc \notin {"none", "FileExistsError"} THEN r1
  ELSE MakedirsLeaf(mkdir(r1.fs, cwd, s), isdir(r1.fs, cwd, s))

makedirs(fs, cwd, s) ==
  MakedirsAfter(MakedirsParents(fs, cwd, MakedirsSplit(split(s))), cwd, s)

WriteAt(fs, s, l, content) ==
  IF ~TrailingSep(s) /\ NamesEntry(s) /\ l.st \in {"absent", "file"}
  THEN [fs |-> [fs EXCEPT !.files =
                  [p \in DOMAIN @ \cup {l.path} |->
                     IF p = l.path THEN content ELSE @[p]]],
        exc |-> "none", wrote |-> {l.path}]
  ELSE [fs |-> fs, exc |-> "OSError", wrote |-> {}]

\* open(s, "w") and write(content).
openWrite(fs, cwd, s, content) == WriteAt(fs, s, Lookup(fs, cwd, s), content)

RemoveAt(fs, l) ==
  IF l.st = "file"
  THEN [fs |-> [fs EXCEPT !.files = [p \in DOMAIN @ \ {l.path} |-> @[p]]],
        exc |-> "none"]
  ELSE [fs |-> fs, exc |-> "OSError"]

\* os.remove
remove(fs, cwd, s) == RemoveAt(fs, Lookup(fs, cwd, s))

\* The file system without what lies below directory d.
Emptied(fs, d) ==
  [dirs |-> {p \in fs.dirs : ~StrictlyInside(p, d)},
   files |-> [p \in {q \in DOMAIN fs.files : ~StrictlyInside(q, d)} |-> fs.files[p]]]

RmtreeAt(fs, s, l) ==
  IF l.st # "dir" THEN [fs |-> fs, exc |-> "OSError"]
  ELSE IF NamesEntry(s)
  THEN [fs |-> [Emptied(fs, l.path) EXCEPT !.dirs = @ \ {l.path}], exc |-> "none"]
  ELSE [fs |-> Emptied(fs, l.path), exc |-> "OSError"]

\* shutil.rmtree: everything below the directory is removed, then the
\* directory itself by os.rmdir(s), which fails for a path ending in "."
\* (EINVAL) and for "chat_gpt/.." (chat_gpt is gone by then).
rmtree(fs, cwd, s) == RmtreeAt(fs, s, Lookup(fs, cwd, s))

\* ------------------------------------------------------------------ tools
\* A tool call is [name, folder_name, filename, content]; a tool returns
\* [fs, cwd, msg, raised, wrote, spawn]: the file system and working directory
\* it leaves, the head of the string it returns, whether an exception left the
\* function instead, the files it wrote, and whether it started a server
\* thread.

Call(name, folder_name, filename, content) ==
  [name |-> name, folder_name |-> folder_name, filename |-> filename,
   content |-> content]

Ret(fs, cwd, msg) ==
  [fs |-> fs, cwd |-> cwd, msg |-> msg, raised |-> FALSE, wrote |-> {},
   spawn |-> FALSE]

Raise(fs, cwd, exc) ==
  [fs |-> fs, cwd |-> cwd, msg |-> exc, raised |-> TRUE, wrote |-> {},
   spawn |-> FALSE]

\* graph.py:27-31: the try block of create_folder.
CreateFolderTry(r1, cwd) ==
  IF r1.exc = "none" THEN Ret(r1.fs, cwd, "Folder created at")
  ELSE Ret(r1.fs, cwd, "Failed to create folder")

\* graph.py:24-31, r0 being what line 24's makedirs did.
CreateFolderIn(r0, cwd, path) ==
  IF r0.exc # "none" THEN Raise(r0.fs, cwd, r0.exc)
  ELSE CreateFolderTry(makedirs(r0.fs, cwd, path), cwd)

create_folder(fs, cwd, folder_name) ==
  CreateFolderIn(makedirs(fs, cwd, CHAT_GPT_DIR), cwd,
                 join(CHAT_GPT_DIR, basename(strip(folder_name))))

\* base_dir of create_code_file and delete_file.
BaseDir(folder_name) ==
  IF Truthy(folder_name)
  THEN join(CHAT_GPT_DIR, basename(strip(folder_name.v)))
  ELSE CHAT_GPT_DIR

\* graph.py:49-54: the try block of create_code_file.
CreateFileTry(w, cwd) ==
  IF w.exc = "none"
  THEN [Ret(w.fs, cwd, "File created/updated at") EXCEPT !.wrote = w.wrote]
  ELSE Ret(w.fs, cwd, "Failed to create/update file")

\* graph.py:46-54, r0 being what line 46's makedirs did.
CreateFileIn(r0, cwd, path, content) ==
  IF r0.exc # "none" THEN Raise(r0.fs, cwd, r0.exc)
  ELSE CreateFileTry(openWrite(r0.fs, cwd, path, content), cwd)

CreateFileAt(fs, cwd, base_dir, filename, content) ==
  CreateFileIn(makedirs(fs, cwd, base_dir), cwd,
               join(base_dir, basename(filename)), content)

create_code_file(fs, cwd, filename, content, folder_name) ==
  CreateFileAt(fs, cwd, BaseDir(folder_name), filename, content)

DeleteFolderTry(r, cwd) ==
  IF r.exc = "none" THEN Ret(r.fs, cwd, "Folder has been deleted")
  ELSE Ret(r.fs, cwd, "Failed to delete folder")

DeleteFolderAt(fs, cwd, base) ==
  IF ~exists(fs, cwd, base) THEN Ret(fs, cwd, "Folder does not exist")
  ELSE DeleteFolderTry(rmtree(fs, cwd, base), cwd)

delete_folder(fs, cwd, folder_name) ==
  DeleteFolderAt(fs, cwd, join(CHAT_GPT_DIR, basename(strip(folder_name))))

DeleteFileTry(r, cwd) ==
  IF r.exc = "none" THEN Ret(r.fs, cwd, "File has been deleted")
  ELSE Ret(r.fs, cwd, "Failed to delete file")

DeleteFileAt(fs, cwd, path) ==
  IF ~exists(fs, cwd, path) THEN Ret(fs, cwd, "File does not exist")
  ELSE DeleteFileTry(remove(fs, cwd, path), cwd)

delete_file(fs, cwd, filename, folder_name) ==
  DeleteFileAt(fs, cwd, join(BaseDir(folder_name), basename(filename)))

\* os.chdir: the working directory becomes the directory the path names.
chdir(fs, cwd, s) == Lookup(fs, cwd, s).path

\* graph.py:94-106, r0 being what line 95's makedirs did.
RunProjectIn(r0, cwd) ==
  IF r0.exc # "none" \/ ~isdir(r0.fs, cwd, CHAT_GPT_DIR)
  THEN Ret(r0.fs, cwd, "Failed to prepare project directory")
  ELSE [Ret(r0.fs, chdir(r0.fs, cwd, CHAT_GPT_DIR),
            "Project server started at http://localhost:8000")
          EXCEPT !.spawn = TRUE]

run_project(fs, cwd) == RunProjectIn(makedirs(fs, cwd, CHAT_GPT_DIR), cwd)

FileTools == {"create_folder", "create_code_file", "delete_folder", "delete_file"}

\* The tool a call names, applied to its arguments (ToolNode's dispatch).
Invoke(fs, cwd, c) ==
  CASE c.name = "create_folder" -> create_folder(fs, cwd, c.folder_name.v)
    [] c.name = "create_code_file" ->
         create_code_file(fs, cwd, c.filename, c.content, c.folder_name)
    [] c.name = "delete_folder" -> delete_folder(fs, cwd, c.folder_name.v)
    [] c.name = "delete_file" -> delete_file(fs, cwd, c.filename, c.folder_name)
    [] c.name = "run_project" -> run_project(fs, cwd)

\* The paths a call created, deleted or wrote.
Touched(old, new, wrote) ==
  {p \in old.dirs \cup new.dirs : (p \in old.dirs) # (p \in new.dirs)}
    \cup {p \in DOMAIN old.files \cup DOMAIN new.files :
            (p \in DOMAIN old.files) # (p \in DOMAIN new.files)}
    \cup wrote

\* ------------------------------------------------------------------ graph
\* A message is [type, content, tool_calls, id]; the graph state (the State
\* TypedDict, checkpointed per thread) is [messages, rewritten_prompt, plan].

Msg(type, content, tool_calls) ==
  [type |-> type, content |-> content, tool_calls |-> tool_calls, id |-> 0]

\* One message through the add_messages reducer: a message whose id is
\* already in the list replaces that entry, any other is appended (a message
\* without an id gets a fresh one).
MergeInto(left, m) ==
  IF m.id # 0 /\ \E i \in 1..Len(left) : left[i].id = m.id
  THEN [i \in 1..Len(left) |-> IF left[i].id = m.id THEN m ELSE left[i]]
  ELSE Append(left, [m EXCEPT !.id = IF @ = 0 THEN Len(left) + 1 ELSE @])

RECURSIVE add_messages(_, _)
add_messages(left, right) ==
  IF right = <<>> THEN left
  ELSE add_messages(MergeInto(left, Head(right)), Tail(right))

\* What a node returns, written to the channels: messages through the
\* reducer, the other keys by overwriting.
ApplyUpdate(st, upd) ==
  [messages |-> IF "messages" \in DOMAIN upd
                THEN add_messages(st.messages, upd.messages) ELSE st.messages,
   rewritten_prompt |-> IF "rewritten_prompt" \in DOMAIN upd
                        THEN upd.rewritten_prompt ELSE st.rewritten_prompt,
   plan |-> IF "plan" \in DOMAIN upd THEN upd.plan ELSE st.plan]

IsHuman(m) == m.type = "human"

\* The index the reversed() loops of the nodes stop at: the latest human
\* message, 0 when there is none.
LastHumanIndex(msgs) ==
  CHOOSE i \in 0..Len(msgs) :
    /\ i # 0 => IsHuman(msgs[i])
    /\ \A j \in (i + 1)..Len(msgs) : ~IsHuman(msgs[j])

TextAt(msgs, i) == IF i = 0 THEN <<>> ELSE msgs[i].content

\* The content of the latest human message, "" when there is none.
LastHumanText(msgs) == TextAt(msgs, LastHumanIndex(msgs))

\* state.get(key) or default
OrElse(o, default) == IF Truthy(o) THEN o.v ELSE default

\* The helper model's answers: empty, or a text. The text carries the values
\* its prompt was built from, so that an answer to a stale prompt differs
\* from an answer to the current one.
RewriteAnswers(content) == {<<>>, <<"R">> \o content}
PlanAnswers(user_text, rewritten) ==
  {<<>>, <<"P">> \o user_text \o <<"|">> \o rewritten}

\* A variant of rewrite_node: an empty answer leaves rewritten_prompt as the
\* checkpoint holds it.
rewrite_node_KeepStale(st, answer) ==
  IF LastHumanIndex(st.messages) = 0 \/ answer = <<>> THEN st
  ELSE [st EXCEPT !.rewritten_prompt = Some(answer)]

\* rewrite_node returns {**state, "rewritten_prompt": rewritten_text}, or the
\* state as it is when there is no human message.
rewrite_node(st, answer) ==
  IF LastHumanIndex(st.messages) = 0 THEN st
  ELSE [st EXCEPT !.rewritten_prompt = Some(answer)]

\* plan_node returns {**state, "plan": plan_text}.
plan_node(st, answer) == [st EXCEPT !.plan = Some(answer)]

PromptWith(st, original_user_text) ==
  [original |-> original_user_text,
   rewritten |-> OrElse(st.rewritten_prompt, original_user_text),
   plan |-> OrElse(st.plan, <<>>)]

\* The three values chatbot puts into its system prompt.
SystemPrompt(st) == PromptWith(st, LastHumanText(st.messages))

\* chatbot returns {"messages": [message]}.
chatbot(message) == [messages |-> <<message>>]

LastMsg(msgs) == msgs[Len(msgs)]

\* langgraph.prebuilt.tools_condition on the last message.
tools_condition(msgs) ==
  IF msgs # <<>> /\ LastMsg(msgs).type = "ai" /\ LastMsg(msgs).tool_calls # <<>>
  THEN "tools" ELSE "END"

\* graph.py:231-240
Edges ==
  {<<"START", "rewrite">>, <<"rewrite", "plan">>, <<"plan", "chatbot">>,
   <<"tools", "chatbot">>, <<"chatbot", "END">>}

\* A variant of Triggered: an edge to END ends the run whatever else the node
\* triggers.
Triggered_EndWins(n, st) ==
  IF <<n, "END">> \in Edges THEN {}
  ELSE ({e[2] : e \in {d \in Edges : d[1] = n}}
          \cup (IF n = "chatbot" THEN {tools_condition(st.messages)} ELSE {}))
         \ {"END"}

\* The nodes due in the next superstep after node n ran: the targets of its
\* edges and of its conditional edge; END names no node.
Triggered(n, st) ==
  ({e[2] : e \in {d \in Edges : d[1] = n}}
     \cup (IF n = "chatbot" THEN {tools_condition(st.messages)} ELSE {}))
    \ {"END"}

\* ------------------------------------------------------------- voice loop

\* main.py:66
SliceLen == 400

\* "Here is my response: "
ResponsePrefix ==
  <<"H", "e", "r", "e", " ", "i", "s", " ", "m", "y", " ", "r", "e", "s", "p",
    "o", "n", "s", "e", ":", " ">>

\* "I have completed your request."
CompletedText ==
  <<"I", " ", "h", "a", "v", "e", " ", "c", "o", "m", "p", "l", "e", "t", "e",
    "d", " ", "y", "o", "u", "r", " ", "r", "e", "q", "u", "e", "s", "t", ".">>

\* text_str[:400]
Slice(s) == SubSeq(s, 1, IF Len(s) < SliceLen THEN Len(s) ELSE SliceLen)

\* The body of the streaming loop for one event whose last message is msg.
OnEvent(last, msg) ==
  IF msg.type = "ai" /\ msg.content # <<>> THEN Some(msg.content) ELSE last

\* main.py:63-69
Summary(last) ==
  IF Truthy(last) THEN ResponsePrefix \o Slice(last.v) ELSE CompletedText

\* A variant of NextPc: the loop goes back to listening as soon as the stream
\* is exhausted.
NextPc_SkipSpeak(at, outcome) ==
  CASE at = "listen" -> "recognize"
    [] at = "recognize" /\ outcome = "text" -> "stream"
    [] at = "recognize" /\ outcome \in {"UnknownValueError", "RequestError"} -> "listen"
    [] at = "stream" /\ outcome = "event" -> "stream"
    [] at = "stream" /\ outcome = "exhausted" -> "listen"
    [] at = "stream" /\ outcome = "exception" -> "crashed"
    [] at = "summarize" -> "speak"
    [] at = "speak" /\ outcome \in {"played", "Exception"} -> "listen"

\* A variant of NextPc: only UnknownValueError is caught.
NextPc_RequestErrorUncaught(at, outcome) ==
  CASE at = "listen" -> "recognize"
    [] at = "recognize" /\ outcome = "text" -> "stream"
    [] at = "recognize" /\ outcome = "UnknownValueError" -> "listen"
    [] at = "recognize" /\ outcome = "RequestError" -> "crashed"
    [] at = "stream" /\ outcome = "event" -> "stream"
    [] at = "stream" /\ outcome = "exhausted" -> "summarize"
    [] at = "stream" /\ outcome = "exception" -> "crashed"
    [] at = "summarize" -> "speak"
    [] at = "speak" /\ outcome \in {"played", "Exception"} -> "listen"

\* A variant of NextPc: speak() is called outside any try.
NextPc_SpeakUncaught(at, outcome) ==
  CASE at = "listen" -> "recognize"
    [] at = "recognize" /\ outcome = "text" -> "stream"
    [] at = "recognize" /\ outcome \in {"UnknownValueError", "RequestError"} -> "listen"
    [] at = "stream" /\ outcome = "event" -> "stream"
    [] at = "stream" /\ outcome = "exhausted" -> "summarize"
    [] at = "stream" /\ outcome = "exception" -> "crashed"
    [] at = "summarize" -> "speak"
    [] at = "speak" /\ outcome = "played" -> "listen"
    [] at = "speak" /\ outcome = "Exception" -> "crashed"

\* Where main() goes next from a position on an outcome (main.py:37-75).
NextPc(at, outcome) ==
  CASE at = "listen" -> "recognize"
    [] at = "recognize" /\ outcome = "text" -> "stream"
    [] at = "recognize" /\ outcome \in {"UnknownValueError", "RequestError"} -> "listen"
    [] at = "stream" /\ outcome = "event" -> "stream"
    [] at = "stream" /\ outcome = "exhausted" -> "summarize"
    [] at = "stream" /\ outcome = "exception" -> "crashed"
    [] at = "summarize" -> "speak"
    [] at = "speak" /\ outcome \in {"played", "Exception"} -> "listen"

\* ------------------------------------------------------------------ state

VARIABLES
  fs,            \* the file system
  cwd,           \* the process's working directory
  threads,       \* the server threads run_project started: their status, and
                 \* what the call that started them returned
  portOwner,     \* the thread listening on localhost:8000, 0 when none
  lastCall,      \* the last tool call made and what it did
  nOps,          \* tool calls made directly
  state,         \* the graph state checkpointed for the thread id
  active,        \* the nodes due in the next superstep of the running graph
  pc,            \* main()'s position in the voice loop
  sst,           \* the transcribed text of this iteration
  last_ai_text,  \* main()'s last_ai_text
  summary_text,  \* main()'s summary_text
  turn,          \* iterations of the voice loop begun
  rounds,        \* tool-calling chatbot steps of this graph run
  streamed,      \* the last message of every state streamed in this run
  prompts,       \* the system prompt values of every chatbot step of this run
  nodes,         \* the nodes this run executed, in order
  iter,          \* what this iteration of the voice loop has done, in order
  msgsAtListen,  \* the conversation when this iteration began to listen
  msgsAfterRun   \* the conversation when this iteration's graph run ended

toolVars == <<fs, cwd, threads, portOwner, lastCall>>
loopVars ==
  <<state, active, pc, sst, last_ai_text, summary_text, turn, rounds, streamed,
    prompts, nodes, iter, msgsAtListen, msgsAfterRun>>
vars == <<toolVars, nOps, loopVars>>

\* The file system the process starts on: its own package, and chat_gpt/
\* left by an earlier session or not there yet.
BaseFs == [dirs |-> {<<>>, Home, AppDir}, files |-> [p \in {AppFile} |-> "src"]]

NoCall ==
  [tool |-> "none", base |-> <<>>, msg |-> "", raised |-> FALSE, touched |-> {}]

Init ==
  /\ fs \in {BaseFs, [BaseFs EXCEPT !.dirs = @ \cup {ChatGptRoot}]}
  /\ cwd = Home
  /\ threads = <<>>
  /\ portOwner = 0
  /\ lastCall = NoCall
  /\ nOps = 0
  /\ state = [messages |-> <<>>, rewritten_prompt |-> None, plan |-> None]
  /\ active = {}
  /\ pc = "listen"
  /\ sst = <<>>
  /\ last_ai_text = None
  /\ summary_text = <<>>
  /\ turn = 0
  /\ rounds = 0
  /\ streamed = <<>>
  /\ prompts = <<>>
  /\ nodes = <<>>
  /\ iter = <<>>
  /\ msgsAtListen = <<>>
  /\ msgsAfterRun = <<>>

\* ----------------------------------------------------------- tool actions

\* The effect of one tool call on the file system, the working directory and
\* the server threads.
Effect(c, r) ==
  /\ fs' = r.fs
  /\ cwd' = r.cwd
  /\ threads' = IF r.spawn
                THEN Append(threads, [status |-> "started", reported |-> r.msg])
                ELSE threads
  /\ portOwner' = portOwner
  /\ lastCall' = [tool |-> c.name,
                  base |-> cwd \o <<CHAT_GPT_DIR>>,
                  msg |-> r.msg,
                  raised |-> r.raised,
                  touched |-> Touched(fs, r.fs, r.wrote)]

Args == Strs(MaxLen)
OptArgs == {None} \cup {Some(s) : s \in Args}
Contents == {"c1", "c2"}

\* A tool called directly, as ToolNode calls it.
Direct(c) ==
  /\ pc # "crashed"
  /\ nOps < MaxOps
  /\ nOps' = nOps + 1
  /\ Effect(c, Invoke(fs, cwd, c))
  /\ UNCHANGED loopVars

CallCreateFolder ==
  \E f \in Args : Direct(Call("create_folder", Some(f), <<>>, ""))

CallCreateCodeFile ==
  \E n \in Args, f \in OptArgs, x \in Contents :
    Direct(Call("create_code_file", f, n, x))

CallDeleteFolder ==
  \E f \in Args : Direct(Call("delete_folder", Some(f), <<>>, ""))

CallDeleteFile ==
  \E n \in Args, f \in OptArgs : Direct(Call("delete_file", f, n, ""))

CallRunProject ==
  /\ Len(threads) < MaxRuns
  /\ Direct(Call("run_project", None, <<>>, ""))

\* The body of a server thread: bind localhost:8000 and serve, or die with
\* OSError when the address is in use.
Serve(t) ==
  /\ threads' = [threads EXCEPT
                   ![t].status = IF portOwner = 0 THEN "serving" ELSE "failed"]
  /\ portOwner' = IF portOwner = 0 THEN t ELSE portOwner

ServeThread ==
  \E t \in 1..Len(threads) :
    /\ pc # "crashed"
    /\ threads[t].status = "started"
    /\ Serve(t)
    /\ UNCHANGED <<fs, cwd, lastCall, nOps, loopVars>>

\* The directory a serving handler serves: the working directory at the time
\* of the request.
ServedDir == cwd

NextTools ==
  \/ CallCreateFolder
  \/ CallCreateCodeFile
  \/ CallDeleteFolder
  \/ CallDeleteFile
  \/ CallRunProject
  \/ ServeThread

SpecTools == Init /\ [][NextTools]_vars

\* ----------------------------------------------------- voice loop actions

\* What the user may say, and what the assistant may answer.
Utterances == {<<"a">>, <<"b">>}
AIContents == {<<>>, <<"o", "k">>, [i \in 1..LongLen |-> "x"]}

\* The tool calls the assistant may ask for: a file chat_gpt/a, a file in
\* the folder chat_gpt/a, and the preview server.
LLMToolCalls ==
  {Call("create_code_file", None, <<"a">>, "c1"),
   Call("create_code_file", Some(<<"a">>), <<"a">>, "c1")}
    \cup (IF Len(threads) < MaxRuns THEN {Call("run_project", None, <<>>, "")} ELSE {})

\* main.py:38-39
Listen ==
  /\ pc = "listen"
  /\ turn < MaxTurns
  /\ turn' = turn + 1
  /\ pc' = NextPc("listen", "audio")
  /\ iter' = <<>>
  /\ msgsAtListen' = state.messages
  /\ UNCHANGED <<toolVars, nOps, state, active, sst, last_ai_text, summary_text,
                 rounds, streamed, prompts, nodes, msgsAfterRun>>

\* main.py:42-49: recognize_google raises one of the two caught errors.
RecognizeFails ==
  /\ pc = "recognize"
  /\ \E e \in {"UnknownValueError", "RequestError"} :
       /\ pc' = NextPc("recognize", e)
       /\ iter' = Append(iter, e)
  /\ UNCHANGED <<toolVars, nOps, state, active, sst, last_ai_text, summary_text,
                 turn, rounds, streamed, prompts, nodes, msgsAtListen, msgsAfterRun>>

\* A variant of InitialLastAiText: the text of the last run is kept.
InitialLastAiText_Stale == last_ai_text

\* main.py:54: last_ai_text before the run is streamed.
InitialLastAiText == None

\* graph.stream with the user message as input: the input is written to the
\* checkpointed state, the START edge fires, and the state is streamed.
Begin(u, st2) ==
  /\ sst' = u
  /\ state' = st2
  /\ active' = Triggered("START", st2)
  /\ last_ai_text' = OnEvent(InitialLastAiText, LastMsg(st2.messages))
  /\ streamed' = <<LastMsg(st2.messages)>>
  /\ prompts' = <<>>
  /\ nodes' = <<>>
  /\ rounds' = 0
  /\ iter' = iter \o <<"transcribed", "graph_start">>
  /\ pc' = NextPc("recognize", "text")

\* main.py:43, 51-55
Transcribed ==
  /\ pc = "recognize"
  /\ \E u \in Utterances :
       Begin(u, ApplyUpdate(state, [messages |-> <<Msg("human", u, <<>>)>>]))
  /\ UNCHANGED <<toolVars, nOps, summary_text, turn, msgsAtListen, msgsAfterRun>>

\* The end of a superstep in which node n ran and left state st2: the next
\* nodes are triggered, the state is streamed to main()'s loop body, and the
\* stream is exhausted when no node is due.
AfterNode(n, st2, calls) ==
  /\ state' = st2
  /\ active' = Triggered(n, st2)
  /\ last_ai_text' = OnEvent(last_ai_text, LastMsg(st2.messages))
  /\ streamed' = Append(streamed, LastMsg(st2.messages))
  /\ nodes' = Append(nodes, [name |-> n, calls |-> calls])
  /\ pc' = NextPc("stream", IF Triggered(n, st2) = {} THEN "exhausted" ELSE "event")
  /\ iter' = IF Triggered(n, st2) = {} THEN Append(iter, "graph_end") ELSE iter
  /\ msgsAfterRun' = IF Triggered(n, st2) = {} THEN st2.messages ELSE msgsAfterRun

RewriteNode ==
  /\ pc = "stream"
  /\ "rewrite" \in active
  /\ \E answer \in RewriteAnswers(LastHumanText(state.messages)) :
       AfterNode("rewrite", ApplyUpdate(state, rewrite_node(state, answer)), FALSE)
  /\ UNCHANGED <<toolVars, nOps, sst, summary_text, turn, rounds, prompts,
                 msgsAtListen>>

PlanNode ==
  /\ pc = "stream"
  /\ "plan" \in active
  /\ \E answer \in PlanAnswers(LastHumanText(state.messages),
                               OrElse(state.rewritten_prompt,
                                      LastHumanText(state.messages))) :
       AfterNode("plan", ApplyUpdate(state, plan_node(state, answer)), FALSE)
  /\ UNCHANGED <<toolVars, nOps, sst, summary_text, turn, rounds, prompts,
                 msgsAtListen>>

ChatbotNode ==
  /\ pc = "stream"
  /\ "chatbot" \in active
  /\ \E content \in AIContents,
        calls \in {<<>>} \cup (IF rounds < MaxToolRounds
                               THEN {<<c>> : c \in LLMToolCalls} ELSE {}) :
       /\ AfterNode("chatbot",
                    ApplyUpdate(state, chatbot(Msg("ai", content, calls))),
                    calls # <<>>)
       /\ rounds' = IF calls # <<>> THEN rounds + 1 ELSE rounds
  /\ prompts' = Append(prompts, SystemPrompt(state))
  /\ UNCHANGED <<toolVars, nOps, sst, summary_text, turn, msgsAtListen>>

\* ToolNode on call c with result r. An exception r raised out of the tool is
\* either turned into an error ToolMessage (handled) or leaves the node and
\* the run, and with them main(), which catches nothing there: which of the
\* two depends on the installed ToolNode's handle_tool_errors default.
ToolsStep(c, r, handled) ==
  /\ Effect(c, r)
  /\ IF r.raised /\ ~handled
     THEN /\ pc' = NextPc("stream", "exception")
          /\ iter' = Append(iter, "graph_exception")
          /\ UNCHANGED <<state, active, last_ai_text, streamed, nodes, msgsAfterRun>>
     ELSE AfterNode("tools",
                    ApplyUpdate(state, [messages |-> <<Msg("tool", <<r.msg>>, <<>>)>>]),
                    FALSE)

ToolsNode ==
  /\ pc = "stream"
  /\ "tools" \in active
  /\ \E handled \in BOOLEAN :
       ToolsStep(LastMsg(state.messages).tool_calls[1],
                 Invoke(fs, cwd, LastMsg(state.messages).tool_calls[1]),
                 handled)
  /\ UNCHANGED <<nOps, sst, summary_text, turn, rounds, prompts, msgsAtListen>>

\* main.py:63-69
Summarize ==
  /\ pc = "summarize"
  /\ summary_text' = Summary(last_ai_text)
  /\ pc' = NextPc("summarize", "done")
  /\ UNCHANGED <<toolVars, nOps, state, active, sst, last_ai_text, turn, rounds,
                 streamed, prompts, nodes, iter, msgsAtListen, msgsAfterRun>>

\* main.py:72-75: asyncio.run(speak(summary_text)) plays the text or raises
\* an Exception, which is printed.
Speak ==
  /\ pc = "speak"
  /\ \E o \in {"played", "Exception"} :
       /\ pc' = NextPc("speak", o)
       /\ iter' = iter \o <<"tts_call", o>>
  /\ UNCHANGED <<toolVars, nOps, state, active, sst, last_ai_text, summary_text,
                 turn, rounds, streamed, prompts, nodes, msgsAtListen, msgsAfterRun>>

Next ==
  \/ Listen
  \/ RecognizeFails
  \/ Transcribed
  \/ RewriteNode
  \/ PlanNode
  \/ ChatbotNode
  \/ ToolsNode
  \/ Summarize
  \/ Speak
  \/ ServeThread

Spec == Init /\ [][Next]_vars

\* ----------------------------------------------------------------- claims

ExpectedNode(i) ==
  IF i = 1 THEN "rewrite"
  ELSE IF i = 2 THEN "plan"
  ELSE IF i % 2 = 1 THEN "chatbot"
  ELSE "tools"

\* A graph run has ended by exhausting its stream (and not by an exception).
RunEnded == pc \in {"summarize", "speak", "listen", "recognize"} /\ nodes # <<>>

\* C1: the nodes of a run execute as rewrite, plan, chatbot, then (tools,
\* chatbot) repeated: rewrite and plan once each; tools runs only right after
\* a chatbot step whose message has tool calls, such a step is always
\* followed by tools, and the run ends only right after a chatbot step whose
\* message has none.
C1_NodeOrder ==
  /\ \A i \in 1..Len(nodes) : nodes[i].name = ExpectedNode(i)
  /\ \A i \in 1..Len(nodes) :
       nodes[i].name = "tools" =>
         i > 1 /\ nodes[i - 1].name = "chatbot" /\ nodes[i - 1].calls
  /\ RunEnded =>
       nodes[Len(nodes)].name = "chatbot" /\ ~nodes[Len(nodes)].calls
  /\ pc = "stream" =>
       /\ Cardinality(active) = 1
       /\ nodes # <<>> /\ nodes[Len(nodes)].name = "chatbot" =>
            nodes[Len(nodes)].calls /\ active = {"tools"}

\* A run with one tool round has ended.
C1_Witness ==
  /\ pc = "summarize"
  /\ Len(nodes) = 5
  /\ nodes[3].calls
  /\ nodes[4].name = "tools"

\* C2 (as claimed): whatever the arguments, the four file tools create,
\* write or delete only paths strictly inside chat_gpt/ (creating chat_gpt/
\* itself when it is missing is not counted against them).
C2_OnlyInsideChatGpt ==
  lastCall.tool \in FileTools =>
    \A p \in lastCall.touched :
      \/ StrictlyInside(p, ChatGptRoot)
      \/ p = ChatGptRoot /\ p \in fs.dirs

\* C3 (as claimed): after any sequence of tool calls, run_project included,
\* a file tool works on the chat_gpt/ directory the first call worked on,
\* which is the directory a serving preview server serves.
C3_SameDirectory ==
  lastCall.tool \in FileTools =>
    /\ lastCall.base = ChatGptRoot
    /\ \A t \in 1..Len(threads) :
         threads[t].status = "serving" => ServedDir = lastCall.base

\* C4 (as claimed): a run_project call that returned "Project server started
\* at http://localhost:8000" has a server listening on localhost:8000, on
\* the first call and on every later one; a serving thread that failed is not
\* reported as started. (Stated of the threads that have got as far as
\* binding the port, so that the thread merely not having run yet does not
\* count against the claim.)
C4_StartedMeansListening ==
  \A t \in 1..Len(threads) :
    (/\ threads[t].reported = "Project server started at http://localhost:8000"
     /\ threads[t].status # "started")
      => threads[t].status = "serving"

\* C7 (as claimed): on every input and every file system the four file
\* tools return a string; no exception leaves the tool function.
C7_NeverRaises == lastCall.tool \in FileTools => ~lastCall.raised

FullTurn(o) == <<"transcribed", "graph_start", "graph_end", "tts_call", o>>

\* C5: when the loop is back at listening after an utterance was
\* transcribed, that iteration ran the graph to the end of its stream and
\* then made exactly one speech call, in this order; speech starts only after
\* the run has ended, and no graph run is in progress while the loop listens
\* or transcribes.
C5_RunThenSpeakThenListen ==
  /\ (pc = "listen" /\ iter # <<>> /\ iter[1] = "transcribed") =>
       \E o \in {"played", "Exception"} : iter = FullTurn(o)
  /\ pc = "speak" => iter = <<"transcribed", "graph_start", "graph_end">>
  /\ pc \in {"listen", "recognize", "summarize", "speak"} => active = {}

\* The loop is back at listening after a second complete turn.
C5_Witness == pc = "listen" /\ turn = 2 /\ iter = FullTurn("played")

RecognizerErrors == {"UnknownValueError", "RequestError"}

\* C6: an iteration whose transcription raised UnknownValueError or
\* RequestError did nothing else: no graph run, no speech call, no message
\* added to the checkpointed conversation; the loop is back at listening.
C6_FailedTranscriptionSkipsTurn ==
  (iter # <<>> /\ iter[1] \in RecognizerErrors) =>
    /\ Len(iter) = 1
    /\ pc = "listen"
    /\ active = {}
    /\ state.messages = msgsAtListen

\* A RequestError in the second iteration, after a turn that left messages.
C6_Witness ==
  /\ iter = <<"RequestError">>
  /\ pc = "listen"
  /\ turn = 2
  /\ state.messages # <<>>

\* The streamed states of this run that end with a non-empty AI message.
Spoken == {i \in 1..Len(streamed) :
             streamed[i].type = "ai" /\ streamed[i].content # <<>>}

\* The first n characters of s.
FirstChars(s, n) == [k \in 1..(IF Len(s) < n THEN Len(s) ELSE n) |-> s[k]]

\* C8: the text handed to speech synthesis comes from this run's streamed
\* states only: "Here is my response: " and the first 400 characters of the
\* content of the last streamed state that ended with a non-empty AI message,
\* or "I have completed your request." when there is none; every streamed
\* state ends with a message of this turn, and the text has at most 421
\* characters.
C8_SummaryOfThisTurn ==
  pc = "speak" =>
    /\ \A i \in 1..Len(streamed) : streamed[i].id > Len(msgsAtListen)
    /\ Spoken = {} => summary_text = CompletedText
    /\ \A i \in Spoken :
         (\A j \in Spoken : j <= i) =>
           summary_text = ResponsePrefix \o FirstChars(streamed[i].content, 400)
    /\ Len(summary_text) <= 421

\* A second turn without any AI text is about to be spoken, after a first
\* turn that had some.
C8_Witness ==
  /\ pc = "speak"
  /\ turn = 2
  /\ Spoken = {}
  /\ \E i \in 1..Len(msgsAtListen) :
       msgsAtListen[i].type = "ai" /\ msgsAtListen[i].content # <<>>

\* C9: in every turn the original request, rewritten instruction and plan of
\* chatbot's system prompt come from this turn's user message: the original
\* is the transcribed text, the rewritten instruction is the rewrite of that
\* text or, when the rewrite is empty, the text itself, the plan is empty or
\* the plan made from the two; and they are the same in every chatbot step
\* of the turn.
C9_PromptOfThisTurn ==
  \A i \in 1..Len(prompts) :
    /\ prompts[i].original = sst
    /\ prompts[i].rewritten \in {sst} \cup (RewriteAnswers(sst) \ {<<>>})
    /\ state.rewritten_prompt = Some(<<>>) => prompts[i].rewritten = sst
    /\ prompts[i].plan \in PlanAnswers(sst, prompts[i].rewritten)
    /\ prompts[i] = prompts[1]

\* The second chatbot step of a second turn whose request differs from the
\* first turn's and whose rewrite came back empty.
C9_Witness ==
  /\ turn = 2
  /\ Len(prompts) = 2
  /\ prompts[2].rewritten = sst
  /\ msgsAtListen # <<>>
  /\ msgsAtListen[1].content # sst

\* C10: an Exception raised by speech synthesis or playback is caught: the
\* loop is back at listening, and the conversation still holds what the
\* run of that turn added to it.
C10_SpeechErrorCaught ==
  (iter # <<>> /\ iter[Len(iter)] = "Exception") =>
    /\ pc = "listen"
    /\ state.messages = msgsAfterRun
    /\ Len(state.messages) > Len(msgsAtListen)
    /\ SubSeq(state.messages, 1, Len(msgsAtListen)) = msgsAtListen

\* Speech failed after a run with a tool round.
C10_Witness ==
  /\ iter = FullTurn("Exception")
  /\ pc = "listen"
  /\ Len(nodes) = 5

====
